---- MODULE Spec2Model ----
(***************************************************************************)
(* Situation & alert analysis pipeline of AiCamera:                        *)
(*   services/situation_analyzer.py  SituationAnalyzer                     *)
(*   services/alert_service.py       AlertService (cooldown deduplicator)  *)
(*   app.py                          analyze_frame, generate_alerts        *)
(*                                                                         *)
(* Time is counted in whole seconds.  A request is one call of             *)
(* SituationAnalyzer.analyze followed by one call of                       *)
(* AlertService.check_alerts on the same entity list; check_alerts is cut  *)
(* into the steps at which another request thread can run in between.      *)
(***************************************************************************)
EXTENDS Integers, Sequences, FiniteSets, TLC

VARIABLES
    now,                \* the wall clock, datetime.now(), in seconds
    alert_history,      \* AlertService.alert_history
    previous_analysis,  \* SituationAnalyzer.previous_analysis
    response,           \* the last JSON body app.analyze_frame returned
    pc,                 \* per request thread: its position in the pipeline
    objects,            \* per thread: the argument `objects`
    situation_analysis, \* per thread: what analyze returned
    new_alerts,         \* per thread: check_alerts' `alerts` / the filter's `new_alerts`
    current_time,       \* per thread: the filter's `current_time`
    valid_alerts,       \* per thread: the filter's `valid_alerts`
    idx,                \* per thread: position of the `for alert in new_alerts` loop
    recent_similar,     \* per thread: the filter's `recent_similar`
    kept,               \* per thread: the list the purge comprehension has built
    started,            \* per thread: the clock when its last request began
    request,            \* per thread: the number of its request
    admitted,           \* every alert a call has put in valid_alerts, in order
    ncalls              \* requests begun so far

vars == <<now, alert_history, previous_analysis, response, pc, objects,
          situation_analysis, new_alerts, current_time, valid_alerts, idx,
          recent_similar, kept, started, request, admitted, ncalls>>

(***************************************************************************)
(* Bounds of the model.                                                    *)
(***************************************************************************)
\* requests (analyze + check_alerts, or analyze_frame) per behaviour
MaxCalls == 3
\* seconds from a request's creation of its alerts to its reading of the clock
MaxSkew == 1
\* analyze / analyze_frame calls per behaviour of the analysis specification
MaxAnalyses == 2

\* request threads of the concurrent specification, and of the sequential one
Threads == {1, 2}
SeqThreads == {1}

\* seconds that may pass between two requests
Gaps == {10, 29, 30, 590}

(***************************************************************************)
(* Program constants.                                                      *)
(***************************************************************************)
alert_cooldown == 30
retention_minutes == 10
default_confidence_threshold == 60

\* timedelta(minutes=m) in seconds
timedelta_minutes(m) == m * 60

(***************************************************************************)
(* Detected entities.  An entity is a dict; a malformed one lacks a key.   *)
(* Confidence is in percent.                                               *)
(***************************************************************************)
Ent(c) == [class |-> c, confidence |-> 90, bounding_box |-> "box"]
LowEnt(c) == [class |-> c, confidence |-> 50, bounding_box |-> "box"]
NoClassEnt == [confidence |-> 90, bounding_box |-> "box"]
NoConfEnt(c) == [class |-> c, bounding_box |-> "box"]
NoBoxEnt(c) == [class |-> c, confidence |-> 90]

Rep(n, e) == [i \in 1..n |-> e]

\* the entity lists requests are drawn from
Frames ==
    { <<>>,
      <<Ent("person"), Ent("person"), Ent("chair")>>,
      <<Ent("chair"), Ent("car"), Ent("car"), Ent("dog"), Ent("tv")>>,
      <<LowEnt("knife")>>,
      <<Ent("knife"), Ent("handgun")>>,
      Rep(3, Ent("backpack")),
      Rep(4, Ent("car")),
      Rep(11, Ent("person")),
      <<Ent("person"), NoClassEnt, Ent("chair")>>,
      <<NoConfEnt("person"), NoBoxEnt("knife")>>,
      Rep(3, Ent("person")),
      Rep(5, Ent("person")),
      Rep(6, Ent("person")),
      Rep(10, Ent("person")),
      <<Ent("vehicle"), Ent("truck")>>,
      <<Ent("car"), Ent("bicycle"), Ent("motorcycle")>>,
      <<Ent("car"), Ent("vehicle"), Ent("bicycle"), Ent("motorcycle")>>,
      Rep(2, Ent("backpack")),
      <<Ent("handbag"), Ent("backpack"), Ent("luggage"), Ent("fireplace")>> }

\* what a caller may pass as `objects`: a list, or something not iterable
Inputs == {[kind |-> "list", items |-> f] : f \in Frames} \cup {[kind |-> "none"]}

\* the entity lists of the requests whose alerts the cooldown specifications follow
AlertFrames ==
    { <<Ent("knife"), Ent("handgun")>>,
      Rep(3, Ent("backpack")) }

AlertInputs == {[kind |-> "list", items |-> f] : f \in AlertFrames}

HasKey(d, k) == k \in DOMAIN d

(***************************************************************************)
(* SituationAnalyzer.  object_counts is a dict, which keeps its keys in    *)
(* insertion order: a sequence of [class, count] in first-seen order.      *)
(***************************************************************************)
KeyIndex(counts, c) ==
    IF \E i \in DOMAIN counts : counts[i].class = c
    THEN CHOOSE i \in DOMAIN counts : counts[i].class = c
    ELSE 0

\* object_counts.get(c, 0)
CountOf(counts, c) ==
    IF KeyIndex(counts, c) = 0 THEN 0 ELSE counts[KeyIndex(counts, c)].count

\* object_counts[c] = object_counts.get(c, 0) + 1
Incr(counts, c) ==
    IF KeyIndex(counts, c) = 0
    THEN Append(counts, [class |-> c, count |-> 1])
    ELSE [counts EXCEPT ![KeyIndex(counts, c)].count = @ + 1]

RECURSIVE CountObjectsFrom(_, _, _)
CountObjectsFrom(items, i, counts) ==
    IF i > Len(items) THEN counts
    ELSE CountObjectsFrom(items, i + 1, Incr(counts, items[i].class))

\* the counting loop of analyze
CountObjects(items) == CountObjectsFrom(items, 1, <<>>)

\* len([obj for obj in objects if obj['class'] in classes])
CountClass(items, classes) ==
    Cardinality({i \in DOMAIN items : items[i].class \in classes})

\* the other rule set of the repository, on people alone
\* (app.py generate_situation_analysis)
_calculate_activity_level_PeopleOnly(items) ==
    LET people_count == CountClass(items, {"person"})
    IN  IF people_count = 0 THEN "none"
        ELSE IF people_count = 1 THEN "low"
        ELSE "medium"

_calculate_activity_level(items) ==
    LET people_count == CountClass(items, {"person"})
        vehicle_count == CountClass(items, {"car", "vehicle", "bicycle", "motorcycle"})
    IN  IF people_count > 5 \/ vehicle_count > 3 THEN "high"
        ELSE IF people_count > 2 \/ vehicle_count > 1 THEN "medium"
        ELSE "low"

\* one clause of the description: the text with its number filled in
Clause(n, text) == [n |-> n, text |-> text]

\* the clauses that ". ".join(descriptions) + "." joins
_generate_description(object_counts, activity_level) ==
    LET people == CountOf(object_counts, "person")
        vehicles == CountOf(object_counts, "car") + CountOf(object_counts, "vehicle")
        animals == CountOf(object_counts, "dog") + CountOf(object_counts, "cat")
        c1 == IF people = 0 THEN <<Clause(0, "The area appears to be empty")>>
              ELSE IF people = 1 THEN <<Clause(1, "There is one person present")>>
              ELSE <<Clause(people, "There are {people} people in the area")>>
        c2 == IF vehicles > 0 THEN <<Clause(vehicles, "{vehicles} vehicle(s) detected")>>
              ELSE <<>>
        c3 == IF animals > 0 THEN <<Clause(animals, "{animals} animal(s) spotted")>>
              ELSE <<>>
        c4 == IF activity_level = "high" THEN <<Clause(0, "The scene shows high activity")>>
              ELSE IF activity_level = "medium" THEN <<Clause(0, "Moderate activity observed")>>
              ELSE <<Clause(0, "The environment is calm")>>
    IN  c1 \o c2 \o c3 \o c4

RECURSIVE SumCounts(_, _)
SumCounts(object_counts, classes) ==
    IF classes = <<>> THEN 0
    ELSE CountOf(object_counts, Head(classes)) + SumCounts(object_counts, Tail(classes))

_determine_environment(object_counts) ==
    LET indoor_objects == <<"chair", "table", "furniture", "computer", "tv">>
        outdoor_objects == <<"car", "tree", "sky", "road">>
        indoor_score == SumCounts(object_counts, indoor_objects)
        outdoor_score == SumCounts(object_counts, outdoor_objects)
    IN  IF indoor_score > outdoor_score THEN "indoor"
        ELSE IF outdoor_score > indoor_score THEN "outdoor"
        ELSE "unknown"

RemoveAt(s, i) == SubSeq(s, 1, i - 1) \o SubSeq(s, i + 1, Len(s))

\* sorted(object_counts.items(), key=lambda x: x[1], reverse=True): a stable
\* sort, so equal counts stay in insertion order
RECURSIVE SortedByCount(_)
SortedByCount(counts) ==
    IF counts = <<>> THEN <<>>
    ELSE LET top == CHOOSE i \in DOMAIN counts :
                        /\ \A j \in DOMAIN counts : counts[j].count <= counts[i].count
                        /\ \A j \in 1..(i - 1) : counts[j].count < counts[i].count
         IN  <<counts[top]>> \o SortedByCount(RemoveAt(counts, top))

\* sorted_objects[:n]
Take(s, n) == SubSeq(s, 1, IF Len(s) < n THEN Len(s) ELSE n)

_get_primary_objects(object_counts) ==
    LET sorted_objects == SortedByCount(object_counts)
        first == Take(sorted_objects, 3)
    IN  [i \in DOMAIN first |-> first[i].class]

\* the fallback with the activity level of a calm scene
_get_fallback_analysis_Low ==
    [description |-> <<Clause(0, "Unable to analyze scene. Please try again.")>>,
     environment |-> "unknown",
     activity_level |-> "low",
     people_count |-> 0,
     object_counts |-> <<>>,
     primary_objects |-> <<>>]

_get_fallback_analysis ==
    [description |-> <<Clause(0, "Unable to analyze scene. Please try again.")>>,
     environment |-> "unknown",
     activity_level |-> "unknown",
     people_count |-> 0,
     object_counts |-> <<>>,
     primary_objects |-> <<>>]

\* the try body of analyze raises: iterating something that is no list, or
\* obj['class'] on an entity without that key
AnalyzeRaises(input) ==
    IF input.kind # "list" THEN TRUE
    ELSE \E i \in DOMAIN input.items : ~HasKey(input.items[i], "class")

\* the dict the try body of analyze builds (the datetime.now() under
\* 'timestamp' is not part of any decision and is left out)
BuildAnalysis(items) ==
    LET object_counts == CountObjects(items)
        people_count == CountOf(object_counts, "person")
        activity_level == _calculate_activity_level(items)
    IN  [description |-> _generate_description(object_counts, activity_level),
         environment |-> _determine_environment(object_counts),
         activity_level |-> activity_level,
         people_count |-> people_count,
         object_counts |-> object_counts,
         primary_objects |-> _get_primary_objects(object_counts)]

\* what analyze returns
AnalyzeResult(input) ==
    IF AnalyzeRaises(input) THEN _get_fallback_analysis ELSE BuildAnalysis(input.items)

\* previous_analysis before the first successful analyze
NoAnalysis == [description |-> <<>>, environment |-> "None", activity_level |-> "None",
               people_count |-> 0, object_counts |-> <<>>, primary_objects |-> <<>>]

(***************************************************************************)
(* AlertService.                                                           *)
(***************************************************************************)
\* Python's `needle in hay` on two strings
Contains(needle, hay) ==
    \E i \in 1..(Len(hay) - Len(needle) + 1) :
        SubSeq(hay, i, i + Len(needle) - 1) = needle

\* any(k in obj['class'] for k in keywords)
AnyContained(keywords, class) == \E k \in keywords : Contains(k, class)

\* datetime.isoformat() and datetime.fromisoformat(): the string keeps the
\* minutes and the seconds apart
isoformat(t) == <<t \div 60, t % 60>>
fromisoformat(s) == s[1] * 60 + s[2]

\* the text of a message with what its f-string fills in
Message(text, class, n) == [text |-> text, class |-> class, n |-> n]

_create_alert(alert_type, message, priority) ==
    [type |-> alert_type,
     message |-> message,
     priority |-> priority,
     timestamp |-> isoformat(now),
     alert_id |-> now]

\* the heuristic with >= 2 for > 2: two stationary objects already count
_check_abandoned_objects_TwoOrMore(items) ==
    LET stationary_objects == {"backpack", "bag", "luggage", "package"}
        stationary_count ==
            Cardinality({i \in DOMAIN items :
                            AnyContained(stationary_objects, items[i].class)})
    IN  stationary_count >= 2

_check_abandoned_objects(items) ==
    LET stationary_objects == {"backpack", "bag", "luggage", "package"}
        stationary_count ==
            Cardinality({i \in DOMAIN items :
                            AnyContained(stationary_objects, items[i].class)})
    IN  stationary_count > 2

\* check_alerts leaves with an exception: iterating something that is no
\* list, or obj['class'] on an entity without that key
CheckAlertsRaises(input) ==
    IF input.kind # "list" THEN TRUE
    ELSE \E i \in DOMAIN input.items : ~HasKey(input.items[i], "class")

RECURSIVE ConcerningAlerts(_, _)
ConcerningAlerts(items, i) ==
    IF i > Len(items) THEN <<>>
    ELSE (IF AnyContained({"weapon", "knife", "gun", "fire"}, items[i].class)
          THEN <<_create_alert("CONCERNING_OBJECT",
                               Message("Concerning object detected: {class}",
                                       items[i].class, 0),
                               "high")>>
          ELSE <<>>)
         \o ConcerningAlerts(items, i + 1)

\* the list `alerts` of check_alerts before the cooldown filter
RuleAlerts(items, analysis) ==
    LET people_count == analysis.people_count
    IN  (IF people_count > 10
         THEN <<_create_alert("CROWD_DETECTED",
                              Message("Unusually large crowd detected: {n} people",
                                      "", people_count),
                              "medium")>>
         ELSE <<>>)
        \o ConcerningAlerts(items, 1)
        \o (IF analysis.activity_level = "high" /\ people_count = 0
            THEN <<_create_alert("UNUSUAL_ACTIVITY",
                                 Message("High activity detected with no people present",
                                         "", 0),
                                 "medium")>>
            ELSE <<>>)
        \o (IF _check_abandoned_objects(items)
            THEN <<_create_alert("ABANDONED_OBJECT",
                                 Message("Possible abandoned object detected", "", 0),
                                 "low")>>
            ELSE <<>>)

\* current_time - datetime.fromisoformat(a['timestamp'])
Age(a, time) == time - fromisoformat(a.timestamp)

\* the cooldown test with <= for <: an entry exactly alert_cooldown old suppresses
RecentSimilar_Inclusive(history, alert, time) ==
    \E i \in DOMAIN history :
        /\ history[i].type = alert.type
        /\ Age(history[i], time) <= alert_cooldown

\* the cooldown test without the comparison of the types
RecentSimilar_AnyType(history, alert, time) ==
    \E i \in DOMAIN history : Age(history[i], time) < alert_cooldown

\* the cooldown test keyed on the message instead of the type
RecentSimilar_ByMessage(history, alert, time) ==
    \E i \in DOMAIN history :
        /\ history[i].message = alert.message
        /\ Age(history[i], time) < alert_cooldown

\* the cooldown test on the last entry of the history alone
RecentSimilar_Latest(history, alert, time) ==
    /\ history # <<>>
    /\ history[Len(history)].type = alert.type
    /\ Age(history[Len(history)], time) < alert_cooldown

\* the any(...) of the cooldown filter
RecentSimilar(history, alert, time) ==
    \E i \in DOMAIN history :
        /\ history[i].type = alert.type
        /\ Age(history[i], time) < alert_cooldown

\* the purge with <= for <: an entry exactly at the horizon is kept
CleanOld_Inclusive(history, time) ==
    SelectSeq(history, LAMBDA a : Age(a, time) <= timedelta_minutes(retention_minutes))

\* the purge with timedelta(hours=10) for timedelta(minutes=10)
CleanOld_Hours(history, time) ==
    SelectSeq(history, LAMBDA a : Age(a, time) < 60 * timedelta_minutes(retention_minutes))

\* the list comprehension that cleans old alerts
CleanOld(history, time) ==
    SelectSeq(history, LAMBDA a : Age(a, time) < timedelta_minutes(retention_minutes))

(***************************************************************************)
(* app.py: analyze_frame and its helpers.                                  *)
(***************************************************************************)
\* r.get('confidence', 0)
GetConfidence(r) == IF HasKey(r, "confidence") THEN r.confidence ELSE 0

\* [r for r in results if r.get('confidence', 0) >= confidence_threshold]
FilterResults(results, confidence_threshold) ==
    SelectSeq(results, LAMBDA r : GetConfidence(r) >= confidence_threshold)

\* len([o for o in objects if o.get('class') == 'person'])
PeopleIn(results) ==
    Cardinality({i \in DOMAIN results :
                    HasKey(results[i], "class") /\ results[i].class = "person"})

generate_alerts(results) ==
    LET people_count == PeopleIn(results)
    IN  IF people_count > 5
        THEN <<[priority |-> "high", message |-> "High people count: {people_count}"]>>
        ELSE IF people_count = 0
        THEN <<[priority |-> "low", message |-> "No people detected"]>>
        ELSE <<[priority |-> "low", message |-> "Normal activity"]>>

\* the response of analyze_frame on the Vision API path: its alerts and summary
FrameResponse(results, confidence_threshold) ==
    LET filtered_results == FilterResults(results, confidence_threshold)
    IN  [kind |-> "analysis",
         alerts |-> generate_alerts(filtered_results),
         summary |-> [total_objects |-> Len(filtered_results),
                      people_count |-> PeopleIn(filtered_results),
                      alert_level |-> "low"]]

get_simulated_response ==
    [kind |-> "simulated",
     alerts |-> <<[priority |-> "low", message |-> "Normal activity"]>>,
     summary |-> [total_objects |-> 1, people_count |-> 1, alert_level |-> "low"]]

NoResponse ==
    [kind |-> "none", alerts |-> <<>>,
     summary |-> [total_objects |-> 0, people_count |-> 0, alert_level |-> "none"]]

(***************************************************************************)
(* The state after construction.                                           *)
(***************************************************************************)
NoInput == [kind |-> "idle"]

Init ==
    /\ now = 0
    /\ alert_history = <<>>
    /\ previous_analysis = NoAnalysis
    /\ response = NoResponse
    /\ pc = [t \in Threads |-> "idle"]
    /\ objects = [t \in Threads |-> NoInput]
    /\ situation_analysis = [t \in Threads |-> NoAnalysis]
    /\ new_alerts = [t \in Threads |-> <<>>]
    /\ current_time = [t \in Threads |-> 0]
    /\ valid_alerts = [t \in Threads |-> <<>>]
    /\ idx = [t \in Threads |-> 0]
    /\ recent_similar = [t \in Threads |-> FALSE]
    /\ kept = [t \in Threads |-> <<>>]
    /\ started = [t \in Threads |-> 0]
    /\ request = [t \in Threads |-> 0]
    /\ admitted = <<>>
    /\ ncalls = 0

Active(t) == pc[t] \notin {"idle", "raised"}

(***************************************************************************)
(* One request: analyze, then check_alerts.                                *)
(***************************************************************************)
\* SituationAnalyzer.analyze(objects), called by thread t as request number
\* ncalls + 1 of at most `limit`
Analyze(t, input, limit) ==
    /\ ~Active(t)
    /\ ncalls < limit
    /\ ncalls' = ncalls + 1
    /\ request' = [request EXCEPT ![t] = ncalls + 1]
    /\ started' = [started EXCEPT ![t] = now]
    /\ objects' = [objects EXCEPT ![t] = input]
    /\ situation_analysis' = [situation_analysis EXCEPT ![t] = AnalyzeResult(input)]
    /\ previous_analysis' =
           IF AnalyzeRaises(input) THEN previous_analysis ELSE BuildAnalysis(input.items)
    /\ pc' = [pc EXCEPT ![t] = "analyzed"]
    /\ UNCHANGED <<now, alert_history, response, new_alerts, current_time,
                   valid_alerts, idx, recent_similar, kept, admitted>>

\* the locals of a call are gone when it is left
ClearLocals(t) ==
    /\ objects' = [objects EXCEPT ![t] = NoInput]
    /\ situation_analysis' = [situation_analysis EXCEPT ![t] = NoAnalysis]
    /\ new_alerts' = [new_alerts EXCEPT ![t] = <<>>]
    /\ current_time' = [current_time EXCEPT ![t] = 0]
    /\ valid_alerts' = [valid_alerts EXCEPT ![t] = <<>>]
    /\ idx' = [idx EXCEPT ![t] = 0]
    /\ recent_similar' = [recent_similar EXCEPT ![t] = FALSE]
    /\ kept' = [kept EXCEPT ![t] = <<>>]

\* check_alerts up to the call of _filter_alerts_by_cooldown: the rules
CheckAlerts(t) ==
    /\ pc[t] = "analyzed"
    /\ ~CheckAlertsRaises(objects[t])
    /\ new_alerts' = [new_alerts EXCEPT ![t] =
                          RuleAlerts(objects[t].items, situation_analysis[t])]
    /\ pc' = [pc EXCEPT ![t] = "filter"]
    /\ UNCHANGED <<now, alert_history, previous_analysis, response, objects,
                   situation_analysis, current_time, valid_alerts, idx,
                   recent_similar, kept, started, request, admitted, ncalls>>

\* check_alerts raises while it evaluates the rules
CheckAlertsRaise(t) ==
    /\ pc[t] = "analyzed"
    /\ CheckAlertsRaises(objects[t])
    /\ pc' = [pc EXCEPT ![t] = "raised"]
    /\ ClearLocals(t)
    /\ UNCHANGED <<now, alert_history, previous_analysis, response, started,
                   request, admitted, ncalls>>

\* where the loop of the filter goes after candidate i
AfterCandidate(t, i) == IF i >= Len(new_alerts[t]) THEN "return" ELSE "check"

\* _filter_alerts_by_cooldown: current_time = datetime.now(); valid_alerts = []
ReadClock(t) ==
    /\ pc[t] = "filter"
    /\ current_time' = [current_time EXCEPT ![t] = now]
    /\ valid_alerts' = [valid_alerts EXCEPT ![t] = <<>>]
    /\ idx' = [idx EXCEPT ![t] = 1]
    /\ pc' = [pc EXCEPT ![t] = AfterCandidate(t, 0)]
    /\ UNCHANGED <<now, alert_history, previous_analysis, response, objects,
                   situation_analysis, new_alerts, recent_similar, kept, started,
                   request, admitted, ncalls>>

\* recent_similar = any(...) for the candidate new_alerts[idx]; a suppressed
\* candidate is dropped and the loop goes on
CheckCooldown(t) ==
    /\ pc[t] = "check"
    /\ LET recent == RecentSimilar(alert_history, new_alerts[t][idx[t]], current_time[t])
       IN  /\ recent_similar' = [recent_similar EXCEPT ![t] = recent]
           /\ idx' = [idx EXCEPT ![t] = IF recent THEN @ + 1 ELSE @]
           /\ pc' = [pc EXCEPT ![t] = IF recent THEN AfterCandidate(t, idx[t])
                                               ELSE "append"]
    /\ UNCHANGED <<now, alert_history, previous_analysis, response, objects,
                   situation_analysis, new_alerts, current_time, valid_alerts,
                   kept, started, request, admitted, ncalls>>

\* valid_alerts.append(alert); self.alert_history.append(alert)
AppendAlert(t) ==
    /\ pc[t] = "append"
    /\ valid_alerts' = [valid_alerts EXCEPT ![t] = Append(@, new_alerts[t][idx[t]])]
    /\ alert_history' = Append(alert_history, new_alerts[t][idx[t]])
    /\ admitted' = Append(admitted, [alert |-> new_alerts[t][idx[t]],
                                     at |-> current_time[t],
                                     request |-> request[t]])
    /\ pc' = [pc EXCEPT ![t] = "purge"]
    /\ UNCHANGED <<now, previous_analysis, response, objects, situation_analysis,
                   new_alerts, current_time, idx, recent_similar, kept, started,
                   request, ncalls>>

\* the comprehension [a for a in self.alert_history if ...] builds its list
PurgeFilter(t) ==
    /\ pc[t] = "purge"
    /\ kept' = [kept EXCEPT ![t] = CleanOld(alert_history, current_time[t])]
    /\ pc' = [pc EXCEPT ![t] = "assign"]
    /\ UNCHANGED <<now, alert_history, previous_analysis, response, objects,
                   situation_analysis, new_alerts, current_time, valid_alerts, idx,
                   recent_similar, started, request, admitted, ncalls>>

\* self.alert_history = <that list>; the loop goes on
PurgeAssign(t) ==
    /\ pc[t] = "assign"
    /\ alert_history' = kept[t]
    /\ kept' = [kept EXCEPT ![t] = <<>>]
    /\ idx' = [idx EXCEPT ![t] = @ + 1]
    /\ pc' = [pc EXCEPT ![t] = AfterCandidate(t, idx[t])]
    /\ UNCHANGED <<now, previous_analysis, response, objects, situation_analysis,
                   new_alerts, current_time, valid_alerts, recent_similar, started,
                   request, admitted, ncalls>>

\* return valid_alerts
Return(t) ==
    /\ pc[t] = "return"
    /\ pc' = [pc EXCEPT ![t] = "idle"]
    /\ ClearLocals(t)
    /\ UNCHANGED <<now, alert_history, previous_analysis, response, started,
                   request, admitted, ncalls>>

(***************************************************************************)
(* The clock.                                                              *)
(***************************************************************************)
\* a second passes between the moment a request creates its alerts
\* (_create_alert reads the clock) and the moment the filter reads the clock
\* again; from the one reading to the other a request takes at most MaxSkew
\* seconds.  Time that passes anywhere else in a request is read by nobody
\* before the next request, and is part of the gap between requests.
Tick(threads) ==
    /\ \E t \in threads : pc[t] = "filter"
    /\ \A t \in threads : pc[t] = "filter" => now + 1 - started[t] <= MaxSkew
    /\ now' = now + 1
    /\ UNCHANGED <<alert_history, previous_analysis, response, pc, objects,
                   situation_analysis, new_alerts, current_time, valid_alerts, idx,
                   recent_similar, kept, started, request, admitted, ncalls>>

\* d seconds pass between the last request and the next one
Advance(threads, d) ==
    /\ \A t \in threads : ~Active(t)
    /\ 0 < ncalls /\ ncalls < MaxCalls
    /\ \E t \in threads : now - started[t] <= MaxSkew
    /\ now' = now + d
    /\ UNCHANGED <<alert_history, previous_analysis, response, pc, objects,
                   situation_analysis, new_alerts, current_time, valid_alerts, idx,
                   recent_similar, kept, started, request, admitted, ncalls>>

(***************************************************************************)
(* app.analyze_frame.                                                      *)
(***************************************************************************)
\* one POST /api/analyze-frame whose image decodes: with the Vision client
\* the response is built from the detections, without it (or when the
\* Vision path raises) it is the simulated one
AnalyzeFrame(results, confidence_threshold, vision) ==
    /\ ncalls < MaxAnalyses
    /\ ncalls' = ncalls + 1
    /\ response' = IF vision THEN FrameResponse(results, confidence_threshold)
                             ELSE get_simulated_response
    /\ UNCHANGED <<now, alert_history, previous_analysis, pc, objects,
                   situation_analysis, new_alerts, current_time, valid_alerts, idx,
                   recent_similar, kept, started, request, admitted>>

(***************************************************************************)
(* Specifications.                                                         *)
(***************************************************************************)
Steps(t) ==
    \/ CheckAlerts(t)
    \/ ReadClock(t)
    \/ CheckCooldown(t)
    \/ AppendAlert(t)
    \/ PurgeFilter(t)
    \/ PurgeAssign(t)
    \/ Return(t)

\* requests of several threads on one AlertService, interleaved
Next ==
    \/ \E t \in Threads, input \in AlertInputs : Analyze(t, input, MaxCalls)
    \/ \E t \in Threads : Steps(t)
    \/ Tick(Threads)
    \/ \E d \in Gaps : Advance(Threads, d)

Spec == Init /\ [][Next]_vars

\* requests served one after the other
SeqNext ==
    \/ \E t \in SeqThreads, input \in AlertInputs : Analyze(t, input, MaxCalls)
    \/ \E t \in SeqThreads : Steps(t)
    \/ Tick(SeqThreads)
    \/ \E d \in Gaps : Advance(SeqThreads, d)

SeqSpec == Init /\ [][SeqNext]_vars

\* the analysis of any input, well formed or not, one request after the other
\* on a clock that stands still, and the frames the HTTP endpoint analyses
AnalysisNext ==
    \/ \E t \in SeqThreads, input \in Inputs : Analyze(t, input, MaxAnalyses)
    \/ \E t \in SeqThreads : Steps(t) \/ CheckAlertsRaise(t)
    \/ \E f \in Frames, th \in {default_confidence_threshold, 95}, v \in BOOLEAN :
           AnalyzeFrame(f, th, v)

AnalysisSpec == Init /\ [][AnalysisNext]_vars

(***************************************************************************)
(* Properties of the cooldown deduplicator.                                *)
(***************************************************************************)
\* the creation instant of an alert, in seconds
CreatedAt(a) == fromisoformat(a.timestamp)

\* the alert types of a list of alerts
TypesOf(alerts) == {alerts[i].type : i \in DOMAIN alerts}

\* thread t takes its CheckCooldown step
ChecksCandidate(t) ==
    /\ pc[t] = "check"
    /\ <<pc'[t], idx'[t]>> # <<pc[t], idx[t]>>

\* C1: in every admission check a candidate of type T is rejected if and only
\* if alert_history, as it is when the candidate is tested, holds an entry of
\* type T younger than 30 s on the call's clock; otherwise the candidate is
\* admitted: the next step of the call appends it to alert_history and to the
\* list the call returns.
C1_RejectedIffRecentEntry ==
    [][\A t \in Threads :
          /\ ChecksCandidate(t) =>
                LET cand == new_alerts[t][idx[t]]
                    hit == \E i \in DOMAIN alert_history :
                               /\ alert_history[i].type = cand.type
                               /\ current_time[t] - CreatedAt(alert_history[i]) < 30
                IN  /\ hit <=> pc'[t] # "append"
                    /\ hit <=> recent_similar'[t]
                    /\ hit => /\ alert_history' = alert_history
                              /\ valid_alerts'[t] = valid_alerts[t]
          /\ (pc[t] = "append" /\ pc'[t] # "append") =>
                /\ alert_history' = Append(alert_history, new_alerts[t][idx[t]])
                /\ valid_alerts'[t] = Append(valid_alerts[t], new_alerts[t][idx[t]])
          /\ (pc[t] \in {"check", "append", "purge", "assign"} /\ pc'[t] = "return") =>
                valid_alerts'[t] \in {valid_alerts[t],
                                      Append(valid_alerts[t], new_alerts[t][idx[t]])}
      ]_vars

\* a call has admitted its first candidate and rejected its second
C1_Witness ==
    \E t \in SeqThreads :
        /\ pc[t] = "return"
        /\ recent_similar[t]
        /\ Len(new_alerts[t]) = 2
        /\ valid_alerts[t] = <<new_alerts[t][1]>>
        /\ alert_history # <<>>

\* C2: two candidates of the same type that two different requests submit
\* within the cooldown window are never both admitted: of two admissions of
\* one type by different requests, the later is made on a clock at least 30 s
\* after the creation of the earlier.
C2_NeverBothAdmitted ==
    \A i, j \in DOMAIN admitted :
        (/\ i < j
         /\ admitted[i].request # admitted[j].request
         /\ admitted[i].alert.type = admitted[j].alert.type)
        => admitted[j].at - CreatedAt(admitted[i].alert) >= 30

\* C3 as stated: when a call that tested candidates is about to return,
\* whether it admitted or rejected them, every entry of alert_history is
\* younger than 10 minutes on the call's clock.
C3_FreshAfterEveryCall ==
    \A t \in SeqThreads :
        (pc[t] = "return" /\ new_alerts[t] # <<>>) =>
            \A i \in DOMAIN alert_history :
                current_time[t] - CreatedAt(alert_history[i]) < 600

\* C3 amended: the purge runs only when a candidate is admitted.  Right after
\* the purge that follows an admission, every entry of alert_history is
\* younger than 10 minutes on the call's clock; a check that rejects its
\* candidate leaves alert_history as it is.
C3_FreshAfterEachAdmission ==
    [][\A t \in Threads :
          /\ (pc[t] = "assign" /\ pc'[t] # "assign") =>
                \A i \in DOMAIN alert_history' :
                    current_time[t] - CreatedAt(alert_history'[i]) < 600
          /\ (ChecksCandidate(t) /\ recent_similar'[t]) =>
                alert_history' = alert_history
      ]_vars

\* a purge is about to drop an entry that has reached the horizon
C3_Witness ==
    \E t \in SeqThreads :
        /\ pc[t] = "assign"
        /\ Len(kept[t]) < Len(alert_history)
        /\ kept[t] # <<>>

\* C4: a type submitted twice within the cooldown window is in the combined
\* admitted output exactly once.  Of two admissions of one type, by one call
\* or by two, the later is made on a clock at least 30 s after the creation of
\* the earlier; and when a call is about to return, each type it submitted
\* has an admission younger than 30 s on its clock (its own or an earlier
\* call's), so a call 10 s after an admission returns no alert of that type.
C4_OncePerWindow ==
    /\ \A i, j \in DOMAIN admitted :
           (i < j /\ admitted[i].alert.type = admitted[j].alert.type)
           => admitted[j].at - CreatedAt(admitted[i].alert) >= 30
    /\ \A t \in SeqThreads :
           pc[t] = "return" =>
               /\ \A k \in DOMAIN new_alerts[t] :
                      \E i \in DOMAIN admitted :
                          /\ admitted[i].alert.type = new_alerts[t][k].type
                          /\ current_time[t] - CreatedAt(admitted[i].alert) < 30
                          /\ current_time[t] - CreatedAt(admitted[i].alert) >= 0
               /\ \A m, n \in DOMAIN valid_alerts[t] :
                      valid_alerts[t][m].type = valid_alerts[t][n].type => m = n

\* the second call comes 10 s after the first, which admitted one of its two
\* candidates of one type, and returns nothing
C4_Witness ==
    \E t \in SeqThreads :
        /\ pc[t] = "return"
        /\ request[t] = 2
        /\ Len(new_alerts[t]) = 2
        /\ new_alerts[t][1].type = new_alerts[t][2].type
        /\ valid_alerts[t] = <<>>
        /\ Len(admitted) = 1
        /\ admitted[1].alert.type = new_alerts[t][1].type
        /\ current_time[t] - CreatedAt(admitted[1].alert) = 10

\* C5: when a call is about to return, each type it submitted whose earlier
\* admissions (by earlier calls) are all at least 30 s old on the call's clock
\* has been admitted by the call; an age of exactly 30 s does not suppress.
C5_Recovery ==
    \A t \in SeqThreads :
        pc[t] = "return" =>
            \A k \in DOMAIN new_alerts[t] :
                (\A i \in DOMAIN admitted :
                     (/\ admitted[i].request # request[t]
                      /\ admitted[i].alert.type = new_alerts[t][k].type)
                     => current_time[t] - CreatedAt(admitted[i].alert) >= 30)
                => new_alerts[t][k].type \in TypesOf(valid_alerts[t])

\* a type admitted by an earlier call is admitted again exactly 30 s later
C5_Witness ==
    \E t \in SeqThreads :
        /\ pc[t] = "return"
        /\ valid_alerts[t] # <<>>
        /\ \E i \in DOMAIN admitted :
               /\ admitted[i].request # request[t]
               /\ admitted[i].alert.type = valid_alerts[t][1].type
               /\ current_time[t] - CreatedAt(admitted[i].alert) = 30

\* C6: an alert of type T admitted at time t neither suppresses nor stays
\* once now - t >= 10 minutes.  When a call whose clock is 10 minutes or more
\* past t is about to return and it submitted T, then T was admitted unless a
\* younger admission of T is within the cooldown window, and once T was
\* admitted the entry from time t is no longer in alert_history.
C6_HistoryHorizon ==
    \A t \in SeqThreads :
        pc[t] = "return" =>
            \A i \in DOMAIN admitted :
                (/\ current_time[t] - CreatedAt(admitted[i].alert) >= 600
                 /\ admitted[i].alert.type \in TypesOf(new_alerts[t]))
                => /\ (\A j \in DOMAIN admitted :
                           (/\ admitted[j].request # request[t]
                            /\ admitted[j].alert.type = admitted[i].alert.type)
                           => current_time[t] - CreatedAt(admitted[j].alert) >= 30)
                      => admitted[i].alert.type \in TypesOf(valid_alerts[t])
                   /\ admitted[i].alert.type \in TypesOf(valid_alerts[t])
                      => \A h \in DOMAIN alert_history :
                             alert_history[h] # admitted[i].alert

\* a type is admitted again exactly 10 minutes after its earlier admission
C6_Witness ==
    \E t \in SeqThreads :
        /\ pc[t] = "return"
        /\ valid_alerts[t] # <<>>
        /\ \E i \in DOMAIN admitted :
               /\ admitted[i].alert.type = valid_alerts[t][1].type
               /\ current_time[t] - CreatedAt(admitted[i].alert) = 600
               /\ \A h \in DOMAIN alert_history : alert_history[h] # admitted[i].alert

(***************************************************************************)
(* Properties of the analysis.                                             *)
(***************************************************************************)
\* the members of a sequence
Range(seq) == {seq[i] : i \in DOMAIN seq}

\* C7: the primary_objects of the summary analyze returns never holds
\* "person" and is at most 3 long.
C7_PrimaryObjectsWithoutPerson ==
    \A t \in SeqThreads :
        pc[t] = "analyzed" =>
            /\ "person" \notin Range(situation_analysis[t].primary_objects)
            /\ Len(situation_analysis[t].primary_objects) <= 3

\* the alert level the claim derives from a list of alerts
LevelOf(alerts) ==
    IF \E i \in DOMAIN alerts : alerts[i].priority = "high" THEN "high"
    ELSE IF alerts # <<>> THEN "medium"
    ELSE "low"

\* C8: the alert_level of the response for an analyzed frame is derived from
\* the alerts of that response: "high" if one has priority "high", else
\* "medium" if there are alerts, else "low".
C8_AlertLevelFromAlerts ==
    response.kind = "analysis" =>
        response.summary.alert_level = LevelOf(response.alerts)

\* the entities of a list that have a class
WithClass(items) == {i \in DOMAIN items : HasKey(items[i], "class")}

\* C9: an entity that lacks its class, confidence or bounding box does not
\* fail the batch: analyze still counts the other entities of the list in
\* people_count and object_counts, and check_alerts does not raise on the
\* list.
C9_MalformedEntityTolerated ==
    [][\A t \in SeqThreads :
          (pc[t] = "analyzed" /\ objects[t].kind = "list") =>
              LET items == objects[t].items
                  counts == situation_analysis[t].object_counts
              IN  /\ situation_analysis[t].people_count =
                         Cardinality({i \in WithClass(items) : items[i].class = "person"})
                  /\ \A i \in WithClass(items) :
                         \E k \in DOMAIN counts :
                             /\ counts[k].class = items[i].class
                             /\ counts[k].count =
                                    Cardinality({j \in WithClass(items) :
                                                    items[j].class = items[i].class})
                  /\ pc'[t] # "raised"
      ]_vars

\* the try body of analyze fails on this input
InternalError(input) ==
    IF input.kind # "list" THEN TRUE
    ELSE \E i \in DOMAIN input.items : "class" \notin DOMAIN input.items[i]

\* C10: analyze returns a summary for every input, it never raises; when
\* its try body fails it returns exactly the fixed fallback summary and
\* leaves previous_analysis as it was.
C10_AnalyzeTotalWithFallback ==
    [][\A t \in SeqThreads :
          (pc[t] \in {"idle", "raised"} /\ pc'[t] # pc[t]) =>
              /\ pc'[t] = "analyzed"
              /\ DOMAIN situation_analysis'[t] =
                     {"description", "environment", "activity_level",
                      "people_count", "object_counts", "primary_objects"}
              /\ InternalError(objects'[t]) =>
                    /\ situation_analysis'[t] =
                           [description |->
                                <<[n |-> 0,
                                   text |-> "Unable to analyze scene. Please try again."]>>,
                            environment |-> "unknown",
                            activity_level |-> "unknown",
                            people_count |-> 0,
                            object_counts |-> <<>>,
                            primary_objects |-> <<>>]
                    /\ previous_analysis' = previous_analysis
      ]_vars

\* analyze has returned the fallback for a list with an entity without class,
\* and the summary of the analysis before it is still in previous_analysis
C10_Witness ==
    \E t \in SeqThreads :
        /\ pc[t] = "analyzed"
        /\ objects[t].kind = "list"
        /\ InternalError(objects[t])
        /\ situation_analysis[t].activity_level = "unknown"
        /\ previous_analysis.people_count = 2

(***************************************************************************)
(* Properties of the alert rules.                                          *)
(***************************************************************************)
\* the number of entities of a list whose class contains one of the keywords
Matching(items, keywords) ==
    Cardinality({i \in DOMAIN items :
                    \E k \in keywords : Contains(k, items[i].class)})

\* no call before the one of thread t has admitted an alert: the call of t
\* found alert_history empty
FoundHistoryEmpty(t) ==
    \A i \in DOMAIN admitted : admitted[i].request = request[t]

\* C11: for a list whose entities all have a class and its summary, checked
\* against an empty alert_history, the types check_alerts returns are exactly
\* the rules whose condition holds: CROWD_DETECTED (medium) iff
\* people_count > 10; CONCERNING_OBJECT (high) iff the class of some entity
\* contains weapon, knife, gun or fire, whatever its confidence;
\* UNUSUAL_ACTIVITY (medium) iff activity_level is "high" and people_count
\* is 0; ABANDONED_OBJECT (low) iff more than 2 entities have a class that
\* contains backpack, bag, luggage or package; nothing when no rule fires.
C11_RuleSetExact ==
    \A t \in SeqThreads :
        (pc[t] = "return" /\ FoundHistoryEmpty(t)) =>
            LET items == objects[t].items
                summary == situation_analysis[t]
                out == valid_alerts[t]
                Returned(type, priority) ==
                    \E k \in DOMAIN out :
                        out[k].type = type /\ out[k].priority = priority
                crowd == summary.people_count > 10
                concerning == Matching(items, {"weapon", "knife", "gun", "fire"}) > 0
                unusual == summary.activity_level = "high" /\ summary.people_count = 0
                abandoned == Matching(items, {"backpack", "bag", "luggage", "package"}) > 2
            IN  /\ Returned("CROWD_DETECTED", "medium") <=> crowd
                /\ Returned("CONCERNING_OBJECT", "high") <=> concerning
                /\ Returned("UNUSUAL_ACTIVITY", "medium") <=> unusual
                /\ Returned("ABANDONED_OBJECT", "low") <=> abandoned
                /\ \A k \in DOMAIN out :
                       <<out[k].type, out[k].priority>> \in
                           {<<"CROWD_DETECTED", "medium">>, <<"CONCERNING_OBJECT", "high">>,
                            <<"UNUSUAL_ACTIVITY", "medium">>, <<"ABANDONED_OBJECT", "low">>}
                /\ ~(crowd \/ concerning \/ unusual \/ abandoned) => out = <<>>

\* a call on an empty history returns two rules at once, the concerning
\* object found by a substring of its class
C11_Witness ==
    \E t \in SeqThreads :
        /\ pc[t] = "return"
        /\ FoundHistoryEmpty(t)
        /\ \E i \in DOMAIN objects[t].items : objects[t].items[i].class = "fireplace"
        /\ TypesOf(valid_alerts[t]) = {"CONCERNING_OBJECT", "ABANDONED_OBJECT"}

\* the number of entities of a list whose class is one of the given ones
NumberOf(items, classes) ==
    Cardinality({i \in DOMAIN items : items[i].class \in classes})

\* C12: for every list of entities (each with its class), with vehicle_count
\* the number of entities whose class is car, vehicle, bicycle or motorcycle,
\* the activity_level of the summary analyze returns is "high" if
\* people_count > 5 or vehicle_count > 3, else "medium" if people_count > 2
\* or vehicle_count > 1, else "low".  The empty list gives "low"; 4 vehicles
\* and no people give "high", and check_alerts then raises the
\* UNUSUAL_ACTIVITY candidate.
C12_ActivityLevelRule ==
    \A t \in SeqThreads :
        (/\ Active(t)
         /\ objects[t].kind = "list"
         /\ \A i \in DOMAIN objects[t].items : "class" \in DOMAIN objects[t].items[i])
        => LET items == objects[t].items
               summary == situation_analysis[t]
               people_count == NumberOf(items, {"person"})
               vehicle_count == NumberOf(items, {"car", "vehicle", "bicycle", "motorcycle"})
           IN  /\ summary.people_count = people_count
               /\ (people_count > 5 \/ vehicle_count > 3)
                      => summary.activity_level = "high"
               /\ (/\ ~(people_count > 5 \/ vehicle_count > 3)
                   /\ (people_count > 2 \/ vehicle_count > 1))
                      => summary.activity_level = "medium"
               /\ ~(people_count > 2 \/ vehicle_count > 1)
                      => summary.activity_level = "low"
               /\ (vehicle_count > 3 /\ people_count = 0 /\ pc[t] # "analyzed")
                      => "UNUSUAL_ACTIVITY" \in TypesOf(new_alerts[t])

\* four vehicles of four classes and nobody: the activity is high and the
\* rules have raised UNUSUAL_ACTIVITY
C12_Witness ==
    \E t \in SeqThreads :
        /\ pc[t] = "filter"
        /\ Len(objects[t].items) = 4
        /\ {objects[t].items[i].class : i \in 1..4} =
               {"car", "vehicle", "bicycle", "motorcycle"}
        /\ situation_analysis[t].activity_level = "high"
        /\ TypesOf(new_alerts[t]) = {"UNUSUAL_ACTIVITY"}

(***************************************************************************)
(* Properties of alert_history.                                            *)
(***************************************************************************)
\* C13: with calls of check_alerts running concurrently on one AlertService,
\* no admitted alert is lost: once every call has finished, each alert that
\* a call returned as admitted and that is younger than 10 minutes is an
\* entry of alert_history.
C13_NoAdmittedAlertLost ==
    (\A t \in Threads : ~Active(t)) =>
        \A i \in DOMAIN admitted :
            now - CreatedAt(admitted[i].alert) < 600 =>
                \E h \in DOMAIN alert_history : alert_history[h] = admitted[i].alert

\* C14 as stated: with the calls served one after the other, two distinct
\* entries of alert_history of one type have timestamps at least 30 s apart.
C14_TimestampsWindowApart ==
    \A i, j \in DOMAIN alert_history :
        (i < j /\ alert_history[i].type = alert_history[j].type)
        => CreatedAt(alert_history[j]) - CreatedAt(alert_history[i]) >= 30

\* C14 amended: the window is measured from the timestamp of the earlier
\* entry to the clock the later entry's call read, which is later than the
\* later entry's own timestamp.  Of two entries of alert_history of one
\* type, the later was admitted on a clock at least 30 s after the timestamp
\* of the earlier: their timestamps are at least 30 s apart less the time
\* from the later alert's creation to its call's reading of the clock.
C14_LaterAdmittedAfterWindow ==
    \A i, j \in DOMAIN alert_history :
        (i < j /\ alert_history[i].type = alert_history[j].type)
        => \E k \in DOMAIN admitted :
               /\ admitted[k].alert = alert_history[j]
               /\ admitted[k].at >= CreatedAt(alert_history[j])
               /\ CreatedAt(alert_history[j]) - CreatedAt(alert_history[i])
                      >= 30 - (admitted[k].at - CreatedAt(alert_history[j]))

\* alert_history holds two entries of one type whose timestamps are 29 s
\* apart: the later was created 29 s after the earlier and its call read
\* the clock a second later
C14_Witness ==
    /\ \A t \in SeqThreads : ~Active(t)
    /\ \E i, j \in DOMAIN alert_history :
           /\ i < j
           /\ alert_history[i].type = alert_history[j].type
           /\ CreatedAt(alert_history[j]) - CreatedAt(alert_history[i]) = 29
           /\ \E k \in DOMAIN admitted :
                  /\ admitted[k].alert = alert_history[j]
                  /\ admitted[k].at = CreatedAt(alert_history[j]) + 1

====
